---- MODULE Spec2Model ----
(***************************************************************************)
(* BiomassAnalyzer (src/data-analysis/biomass_analysis.py).                *)
(*                                                                         *)
(* Numbers: a Python float v is held as the integer 100*v (two decimals,   *)
(* truncated toward zero after every multiplication and division, as a     *)
(* float is rounded after every operation).  0.47 is 47, 50.0 is 5000.     *)
(* nan and the two infinities are values of their own, with the IEEE-754   *)
(* rules for arithmetic and comparison; there is one zero.                 *)
(* A dict is a TLA+ record (a function of its keys); "key in d" is         *)
(* key \in DOMAIN d.  A call that raises yields [raised |-> <exception>].  *)
(***************************************************************************)
EXTENDS Integers, Sequences, FiniteSets, TLC

VARIABLES
    model,      \* self.model: the regression backend
    scaler,     \* self.scaler: the StandardScaler and what it was last fit on
    op,         \* the method the caller invoked last
    args,       \* the arguments of that invocation
    ret,        \* what that invocation returned to the caller
    calls,      \* the estimate_biomass calls made during that invocation, in
                \* order: <<[image_path, result]>>
    handed,     \* the scaled rows handed to self.model.predict during that
                \* invocation, in order
    report,     \* the lines generate_report had rendered when it ended
    written     \* what that invocation wrote: <<[path, content]>> or <<>>

vars == <<model, scaler, op, args, ret, calls, handed, report, written>>

----------------------------------------------------------------------------
(* Bounds of the model *)

\* longest list of image paths handed to analyze_multiple_images
MaxBatch == 3

\* most pixels of an image handed to calculate_ndvi directly
MaxPixels == 2

----------------------------------------------------------------------------
(* Fixed-point arithmetic and numpy reductions *)

\* The IEEE-754 values that are no finite number: what a numpy division by
\* zero yields (x / 0 is +-inf, 0 / 0 is nan) and what arithmetic makes of
\* them.  They are held as integers outside the range of the finite values.
PosInf == 2147483647
NegInf == -PosInf
NaN == 2147483646

IsNaN(a) == a = NaN
IsInf(a) == a = PosInf \/ a = NegInf
IsFinite(a) == ~IsNaN(a) /\ ~IsInf(a)

\* the infinity of the sign of s
Inf(s) == IF s < 0 THEN NegInf ELSE PosInf

\* a < b: False when either is nan
Less(a, b) == ~IsNaN(a) /\ ~IsNaN(b) /\ a < b

Abs(a) == IF a < 0 THEN -a ELSE a

\* a / b, truncated toward zero
Quot(a, b) ==
    IF (a < 0) = (b < 0) THEN Abs(a) \div Abs(b) ELSE -(Abs(a) \div Abs(b))

\* the float sum a + b
Add(a, b) ==
    IF IsNaN(a) \/ IsNaN(b) THEN NaN
    ELSE IF IsInf(a) THEN (IF IsInf(b) /\ b # a THEN NaN ELSE a)
    ELSE IF IsInf(b) THEN b
    ELSE a + b

\* the float difference a - b
Sub(a, b) == Add(a, IF IsNaN(b) THEN NaN ELSE -b)

\* the float product a * b of two fixed-point numbers
FMul(a, b) ==
    IF IsNaN(a) \/ IsNaN(b) THEN NaN
    ELSE IF IsInf(a) \/ IsInf(b)
    THEN (IF a = 0 \/ b = 0 THEN NaN ELSE Inf(IF (a < 0) = (b < 0) THEN 1 ELSE -1))
    ELSE Quot(a * b, 100)

\* the float quotient a / b of two fixed-point numbers, as numpy divides: no
\* exception on a zero divisor
FDiv(a, b) ==
    IF IsNaN(a) \/ IsNaN(b) THEN NaN
    ELSE IF IsInf(a)
    THEN (IF IsInf(b) THEN NaN ELSE Inf(IF (a < 0) = (b < 0) THEN 1 ELSE -1))
    ELSE IF IsInf(b) THEN 0
    ELSE IF b = 0 THEN (IF a = 0 THEN NaN ELSE Inf(a))
    ELSE Quot(a * 100, b)

\* a float over a count
DivN(a, n) == IF IsFinite(a) THEN Quot(a, n) ELSE a

\* Python's min(a, b) and max(a, b): a unless b compares below (above) it
Min(a, b) == IF Less(b, a) THEN b ELSE a
Max(a, b) == IF Less(a, b) THEN b ELSE a

\* np.minimum(a, b) and np.maximum(a, b): nan when either is
np_minimum(a, b) == IF IsNaN(a) \/ IsNaN(b) THEN NaN ELSE IF a < b THEN a ELSE b
np_maximum(a, b) == IF IsNaN(a) \/ IsNaN(b) THEN NaN ELSE IF a > b THEN a ELSE b

\* np.clip(v, lo, hi)
Clip(v, lo, hi) == np_minimum(np_maximum(v, lo), hi)

RECURSIVE np_sum(_)
np_sum(s) == IF s = <<>> THEN 0 ELSE Add(Head(s), np_sum(Tail(s)))

RECURSIVE np_min(_)
np_min(s) == IF Len(s) = 1 THEN s[1] ELSE np_minimum(Head(s), np_min(Tail(s)))

RECURSIVE np_max(_)
np_max(s) == IF Len(s) = 1 THEN s[1] ELSE np_maximum(Head(s), np_max(Tail(s)))

\* np.mean(s): the sum over the count
np_mean(s) == DivN(np_sum(s), Len(s))

\* the integer square root, by bisection on lo..hi
RECURSIVE SqrtIn(_, _, _)
SqrtIn(n, lo, hi) ==
    IF lo >= hi THEN lo
    ELSE LET mid == (lo + hi + 1) \div 2
         IN  IF mid * mid <= n THEN SqrtIn(n, mid, hi) ELSE SqrtIn(n, lo, mid - 1)

\* the square root of a fixed-point number: sqrt(v/100) = sqrt(100*v)/100
FSqrt(v) ==
    IF IsNaN(v) \/ v = NegInf THEN NaN
    ELSE IF v = PosInf THEN PosInf
    ELSE IF v <= 0 THEN 0
    ELSE SqrtIn(100 * v, 0, 46340)

\* the squared deviations of s from m
deviations(s, m) == [i \in 1..Len(s) |-> FMul(Sub(s[i], m), Sub(s[i], m))]

\* np.std(s): the population standard deviation
np_std(s) == FSqrt(DivN(np_sum(deviations(s, np_mean(s))), Len(s)))

----------------------------------------------------------------------------
(* Exceptions *)

Raise(e) == [raised |-> e]
IsRaised(v) == "raised" \in DOMAIN v

----------------------------------------------------------------------------
(* The files the caller may name, and what OpenCV makes of them.           *)
(* A readable file is described by what the library calls return on it:    *)
(*   pixels    the (R, G, B) bytes of the resized image, before /255.0     *)
(*   contours  cv2.findContours' contours as [area, h] (contour area and   *)
(*             bounding-box height, in pixels), or CvError when one of the *)
(*             calls raises                                                *)
(*   mask      cv2.inRange's vegetation mask, one bit per pixel, or        *)
(*             CvError                                                     *)
(*   lab_var   np.var of the three LAB channels (fixed-point), or CvError  *)
(***************************************************************************)

Ok(v) == [ok |-> TRUE, v |-> v]
CvError == [ok |-> FALSE, v |-> <<>>]

Files ==
    [ mangrove |->
        [ pixels   |-> << <<40, 160, 30>>, <<60, 200, 50>> >>,
          contours |-> Ok(<< [area |-> 900, h |-> 120], [area |-> 40, h |-> 7],
                             [area |-> 400, h |-> 80] >>),
          mask     |-> Ok(<<1, 1>>),
          lab_var  |-> Ok(<<30000, 9000, 6000>>) ],
      mudflat |->
        [ pixels   |-> << <<200, 50, 0>>, <<120, 100, 90>> >>,
          contours |-> CvError,
          mask     |-> Ok(<<0, 1>>),
          lab_var  |-> CvError ],
      sand |->
        [ pixels   |-> << <<128, 128, 128>> >>,
          contours |-> Ok(<< [area |-> 12, h |-> 3] >>),
          mask     |-> CvError,
          lab_var  |-> Ok(<<0, 0, 0>>) ],
      lagoon |->
        [ pixels   |-> << <<0, 0, 34>>, <<60, 200, 50>> >>,
          contours |-> Ok(<< [area |-> 400, h |-> 80] >>),
          mask     |-> Ok(<<0, 1>>),
          lab_var  |-> Ok(<<30000, 9000, 6000>>) ],
      reef |->
        [ pixels   |-> << <<0, 15, 36>>, <<128, 128, 128>> >>,
          contours |-> Ok(<< [area |-> 900, h |-> 120] >>),
          mask     |-> Ok(<<1, 0>>),
          lab_var  |-> Ok(<<0, 0, 0>>) ] ]

\* image paths: three readable files and one cv2.imread cannot read
ImagePaths == {"mangrove", "mudflat", "sand", "missing"}

\* two more readable files, each with a pixel whose vegetation-index
\* denominator G + 6R - 7.5B + 1 is zero: (0, 0, 34) in lagoon, where the
\* numerator is zero too, and (0, 15, 36) in reef, where it is not
DegeneratePaths == {"lagoon", "reef"}

\* the image paths a caller may hand to estimate_biomass
SinglePaths == ImagePaths \cup DegeneratePaths

\* the lists of image paths a caller may pass: up to MaxBatch distinct paths
Batches ==
    UNION { {b \in [1..n -> ImagePaths] : \A i, j \in 1..n : b[i] = b[j] => i = j}
            : n \in 0..MaxBatch }

----------------------------------------------------------------------------
(* Metadata values a caller may pass: None, a dict with float values, a    *)
(* dict with a string value, and a non-empty list (truthy, without a get   *)
(* method).  A dict value is [t |-> "float" | "str", v].                   *)
(***************************************************************************)

Float(v) == [t |-> "float", v |-> v]
Str == [t |-> "str", v |-> 0]

EmptyDict == [k \in {} |-> Float(0)]

MetaNone == [kind |-> "None", d |-> EmptyDict]
MetaFull ==
    [kind |-> "dict",
     d |-> [moisture_index |-> Float(80), temperature |-> Float(2850),
            salinity |-> Float(3200)]]
MetaStr == [kind |-> "dict", d |-> [temperature |-> Str]]
MetaList == [kind |-> "list", d |-> EmptyDict]

Metadatas == {MetaNone, MetaFull, MetaStr, MetaList}

\* Python truthiness of a metadata value
Truthy(metadata) ==
    CASE metadata.kind = "None" -> FALSE
      [] metadata.kind = "dict" -> DOMAIN metadata.d # {}
      [] OTHER -> TRUE

\* metadata.get(key, default): AttributeError on a value without get
dict_get(metadata, key, default) ==
    IF metadata.kind # "dict" THEN Raise("AttributeError")
    ELSE IF key \in DOMAIN metadata.d THEN metadata.d[key]
    ELSE Float(default)

----------------------------------------------------------------------------
(* Image loading and the feature extractors *)

\* preprocess_image without the check of cv2.imread's result: an unreadable
\* file comes out as an image
preprocess_image_unchecked(image_path) ==
    IF image_path \notin DOMAIN Files THEN Files.sand ELSE Files[image_path]

\* preprocess_image: cv2.imread returns None for a file it cannot read and
\* the ValueError is re-raised; otherwise the resized, normalised image
preprocess_image(image_path) ==
    IF image_path \notin DOMAIN Files THEN Raise("ValueError")
    ELSE Files[image_path]

\* the vegetation index of one pixel.  With r = R/255, g = G/255, b = B/255:
\* 2.5 * (g - r) / (g + 6*r - 7.5*b + 1) = 5*(G - R) / (2*G + 12*R - 15*B + 510)
\* A zero denominator raises nothing: the division yields nan or +-inf.
evi(px) ==
    FDiv(5 * (px[2] - px[1]), 2 * px[2] + 12 * px[1] - 15 * px[3] + 510)

\* the four statistics of the vegetation index
ndvi_stats(e) ==
    [ndvi_mean |-> np_mean(e), ndvi_std |-> np_std(e),
     ndvi_min |-> np_min(e), ndvi_max |-> np_max(e)]

calculate_ndvi(image) ==
    ndvi_stats([i \in 1..Len(image.pixels) |-> evi(image.pixels[i])])

\* the four statistics of the bounding-box heights; [0] when there are none
height_stats(hs) ==
    IF hs = <<>>
    THEN [height_mean |-> np_mean(<<0>>), height_std |-> np_std(<<0>>),
          height_min |-> np_min(<<0>>), height_max |-> np_max(<<0>>)]
    ELSE [height_mean |-> np_mean(hs), height_std |-> np_std(hs),
          height_min |-> np_min(hs), height_max |-> np_max(hs)]

\* the heights of the contours whose area exceeds 100
contour_heights(contours) ==
    [i \in 1..Len(contours) |-> 100 * contours[i].h]

estimate_vegetation_height(image) ==
    IF ~image.contours.ok
    THEN [height_mean |-> 0, height_std |-> 0, height_min |-> 0, height_max |-> 0]
    ELSE height_stats(contour_heights(
             SelectSeq(image.contours.v, LAMBDA c : c.area > 100)))

calculate_canopy_cover(image) ==
    IF ~image.mask.ok THEN 0
    ELSE FMul(FDiv(100 * np_sum(image.mask.v), 100 * Len(image.mask.v)), 10000)

estimate_species_diversity(image) ==
    IF ~image.lab_var.ok THEN 0
    ELSE Clip(FDiv(np_mean(image.lab_var.v), 25500), 0, 100)

feature_names ==
    << "ndvi_mean", "ndvi_std", "ndvi_min", "ndvi_max",
       "height_mean", "height_std", "height_min", "height_max",
       "density_score", "canopy_cover", "species_diversity",
       "moisture_index", "temperature", "salinity" >>

\* np.zeros(n)
np_zeros(n) == [i \in 1..n |-> 0]

\* a 1 x n array: its dtype and its single row
Array(dtype, row) == [dtype |-> dtype, row |-> row]

\* metadata.get(key, default) if metadata else default
environment(metadata, key, default) ==
    IF Truthy(metadata) THEN dict_get(metadata, key, default) ELSE Float(default)

\* np.array([...]).reshape(1, -1) of the 14 values, or the except branch of
\* extract_features when reading the metadata raised
feature_array(ndvi, height, canopy_cover, species_diversity, moisture_index, temperature, salinity) ==
    IF IsRaised(moisture_index) \/ IsRaised(temperature) \/ IsRaised(salinity)
    THEN Array("float64", np_zeros(Len(feature_names)))
    ELSE Array(
           IF "str" \in {moisture_index.t, temperature.t, salinity.t}
           THEN "str" ELSE "float64",
           << ndvi.ndvi_mean, ndvi.ndvi_std, ndvi.ndvi_min, ndvi.ndvi_max,
              height.height_mean, height.height_std,
              height.height_min, height.height_max,
              FDiv(canopy_cover, 10000), canopy_cover, species_diversity,
              moisture_index.v, temperature.v, salinity.v >>)

\* extract_features: the 14 features of an image, or the zero row when
\* anything in the try block raises
extract_features(image, metadata) ==
    feature_array(calculate_ndvi(image),
                  estimate_vegetation_height(image),
                  calculate_canopy_cover(image),
                  estimate_species_diversity(image),
                  environment(metadata, "moisture_index", 70),
                  environment(metadata, "temperature", 2500),
                  environment(metadata, "salinity", 3500))

-----
(* The estimator *)

\* A backend: the default RandomForestRegressor, which nothing in the module
\* ever fits; a loaded keras model, taken as the linear map bias + sum(x);
\* or None.
RandomForest == [type |-> "RandomForestRegressor", bias |-> 0]
Keras(bias) == [type |-> "Sequential", bias |-> bias]
NoModel == [type |-> "NoneType", bias |-> 0]

\* the models a file at model_path may hold: bias 0 and bias 2.5
LoadableModels == {Keras(0), Keras(250)}

\* every value self.model takes
Backends == {RandomForest, NoModel} \cup LoadableModels

\* isinstance(self.model, keras.Model)
IsKeras(m) == m.type = "Sequential"

\* self.model.predict(X)[0] (or [0][0]): the keras model's output, or the
\* NotFittedError of the forest that was never fit
predict(m, X) ==
    IF IsKeras(m) THEN [value |-> Add(m.bias, np_sum(X))]
    ELSE Raise("NotFittedError")

\* StandardScaler() before any fit
UnfittedScaler == [fitted |-> FALSE, mean_ |-> <<>>, scale_ |-> <<>>]

\* the fitted scaler and the transformed row
scaled_by(row, mean_, scale_) ==
    [scaler |-> [fitted |-> TRUE, mean_ |-> mean_, scale_ |-> scale_],
     X |-> [i \in 1..Len(row) |-> FDiv(Sub(row[i], mean_[i]), scale_[i])]]

\* self.scaler.fit_transform(X) on the one-row array X: fit() resets the
\* scaler, then validates X (a non-numeric array raises ValueError, and so
\* does an infinite entry; nan is let through), sets mean_ to the column
\* means and scale_ to the column deviations with zero replaced by 1, and
\* returns (X - mean_) / scale_
fit_transform(X) ==
    IF X.dtype # "float64" \/ \E i \in 1..Len(X.row) : IsInf(X.row[i])
    THEN [raised |-> "ValueError", scaler |-> UnfittedScaler]
    ELSE scaled_by(X.row,
                   [i \in 1..Len(X.row) |-> np_mean(<<X.row[i]>>)],
                   [i \in 1..Len(X.row) |->
                       IF np_std(<<X.row[i]>>) = 0 THEN 100
                       ELSE np_std(<<X.row[i]>>)])

\* the weight vector of the fallback model
weights == <<30, 10, 10, 20, 20, 10, 10, 20, 30, 40, 20, 10, 5, 5>>

FALLBACK_MIN == 10
FALLBACK_MAX == 5000

\* the fallback without np.clip
_calculate_fallback_biomass_unbounded(features) ==
    np_sum([i \in 1..Len(features) |-> FMul(features[i], weights[i])])

_calculate_fallback_biomass(features) ==
    Clip(np_sum([i \in 1..Len(features) |-> FMul(features[i], weights[i])]),
         FALLBACK_MIN, FALLBACK_MAX)

NDVI_REFERENCE == 50
HEIGHT_REFERENCE == 10000

\* the confidence without the final np.clip
_calculate_confidence_unclipped(features) ==
    FDiv(Add(Add(Min(FDiv(features[1], NDVI_REFERENCE), 100),
                 Min(FDiv(features[5], HEIGHT_REFERENCE), 100)),
             FDiv(features[10], 10000)),
         300)

_calculate_confidence(features) ==
    Clip(FDiv(Add(Add(Min(FDiv(features[1], NDVI_REFERENCE), 100),
                      Min(FDiv(features[5], HEIGHT_REFERENCE), 100)),
                  FDiv(features[10], 10000)),
              300),
         0, 100)

CARBON_FRACTION == 47
CO2_PER_CARBON == 367

\* datetime.now().isoformat()
Now == "isoformat"

\* dict(zip(names, row))
dict_zip(names, row) ==
    [k \in {names[i] : i \in 1..Len(names)} |->
        row[CHOOSE i \in 1..Len(names) : names[i] = k]]

\* the except branch of estimate_biomass re-raising, as preprocess_image does
error_result_reraised(e, image_path) == Raise(e)

\* the except branch of estimate_biomass
error_result(e, image_path) ==
    [error |-> e, image_path |-> image_path, timestamp |-> Now]

\* the dict estimate_biomass assembles
assemble(m, image_path, features, biomass_prediction, carbon_content, co2_equivalent) ==
    [image_path |-> image_path,
     timestamp |-> Now,
     biomass_estimate_kg_m2 |-> biomass_prediction,
     carbon_content_kg_m2 |-> carbon_content,
     co2_equivalent_kg_m2 |-> co2_equivalent,
     features |-> dict_zip(feature_names, features.row),
     confidence_score |-> _calculate_confidence(features.row),
     analysis_metadata |->
        [model_type |-> m.type,
         feature_count |-> Len(feature_names),
         image_resolution |-> "512x512"]]

\* carbon_content * 3.67
with_co2(m, image_path, features, biomass_prediction, carbon_content) ==
    assemble(m, image_path, features, biomass_prediction, carbon_content,
             FMul(carbon_content, CO2_PER_CARBON))

\* the carbon content taken as 0.45 of the biomass
analysis_result_45(m, image_path, features, biomass_prediction) ==
    with_co2(m, image_path, features, biomass_prediction,
             FMul(biomass_prediction, 45))

\* the try branch of estimate_biomass after a successful prediction:
\* biomass_prediction * 0.47, then the CO2 equivalent, then the dict
analysis_result(m, image_path, features, biomass_prediction) ==
    with_co2(m, image_path, features, biomass_prediction,
             FMul(biomass_prediction, CARBON_FRACTION))

\* estimate_biomass from the prediction on; X is what predict was called on
after_predict(m, image_path, features, sc, X, prediction) ==
    IF IsRaised(prediction)
    THEN [ret |-> error_result(prediction.raised, image_path), scaler |-> <<sc>>,
          X |-> X]
    ELSE [ret |-> analysis_result(m, image_path, features, prediction.value),
          scaler |-> <<sc>>, X |-> X]

\* estimate_biomass from the scaling on: the backend's prediction, or the
\* fallback when there is no backend
after_scale(m, image_path, features, scaled) ==
    IF IsRaised(scaled)
    THEN [ret |-> error_result(scaled.raised, image_path),
          scaler |-> <<scaled.scaler>>, X |-> <<>>]
    ELSE IF m.type # "NoneType"
    THEN after_predict(m, image_path, features, scaled.scaler, <<scaled.X>>,
                       predict(m, scaled.X))
    ELSE after_predict(m, image_path, features, scaled.scaler, <<>>,
                       [value |-> _calculate_fallback_biomass(features.row)])

\* estimate_biomass from the feature extraction on
after_extract(m, image_path, features) ==
    after_scale(m, image_path, features, fit_transform(features))

\* estimate_biomass from the image load on
after_load(m, image_path, metadata, image) ==
    IF IsRaised(image)
    THEN [ret |-> error_result(image.raised, image_path), scaler |-> <<>>,
          X |-> <<>>]
    ELSE after_extract(m, image_path, extract_features(image, metadata))

\* estimate_biomass on an analyzer whose model is m: the dict it returns,
\* the state fit_transform left the scaler in (<<>> when it was not reached)
\* and the row predict was called on (<<>> when it was not called)
estimate_biomass(m, image_path, metadata) ==
    after_load(m, image_path, metadata, preprocess_image(image_path))

\* estimate_biomass, tabulated over its arguments (f @@ <<>> is f, written
\* out as an explicit function)
estimate_biomass_table ==
    [m \in Backends, image_path \in SinglePaths, metadata \in Metadatas |->
        estimate_biomass(m, image_path, metadata)] @@ <<>>

----------------------------------------------------------------------------
(* The aggregator *)

\* the summary block of one metric
summary(values) ==
    [mean |-> np_mean(values), std |-> np_std(values),
     min |-> np_min(values), max |-> np_max(values), total |-> np_sum(values)]

\* [r[key] for r in results]
column(results, key) == [i \in 1..Len(results) |-> results[i][key]]

\* one estimate_biomass call of the loop, as made
call_of(image_path, r) ==
    [image_path |-> image_path, result |-> r.ret, scaler |-> r.scaler, X |-> r.X]

\* the for loop of analyze_multiple_images: one estimate_biomass call per
\* path, in order; an exception out of a call ends the loop
RECURSIVE batch_loop(_, _, _, _)
after_call(m, image_paths, metadata, made) ==
    IF IsRaised(made[Len(made)].result)
    THEN [calls |-> made, raised |-> <<made[Len(made)].result.raised>>]
    ELSE batch_loop(m, image_paths, metadata, made)

batch_loop(m, image_paths, metadata, made) ==
    IF Len(made) = Len(image_paths) THEN [calls |-> made, raised |-> <<>>]
    ELSE after_call(m, image_paths, metadata,
             Append(made,
                    call_of(image_paths[Len(made) + 1],
                            estimate_biomass_table[
                                m, image_paths[Len(made) + 1], metadata])))

\* the results the loop keeps
kept_results(kept) == [i \in 1..Len(kept) |-> kept[i].result]

valid_results(made) ==
    kept_results(SelectSeq(made, LAMBDA c : "error" \notin DOMAIN c.result))

\* aggregated_results with every image counted as a valid analysis
statistics_block_counts_all(image_paths, results) ==
    [total_images |-> Len(image_paths),
     valid_analyses |-> Len(image_paths),
     biomass_summary |-> summary(column(results, "biomass_estimate_kg_m2")),
     carbon_summary |-> summary(column(results, "carbon_content_kg_m2")),
     co2_summary |-> summary(column(results, "co2_equivalent_kg_m2")),
     confidence_summary |->
        [mean |-> np_mean(column(results, "confidence_score")),
         std |-> np_std(column(results, "confidence_score"))],
     individual_results |-> results,
     timestamp |-> Now]

\* aggregated_results
statistics_block(image_paths, results) ==
    [total_images |-> Len(image_paths),
     valid_analyses |-> Len(results),
     biomass_summary |-> summary(column(results, "biomass_estimate_kg_m2")),
     carbon_summary |-> summary(column(results, "carbon_content_kg_m2")),
     co2_summary |-> summary(column(results, "co2_equivalent_kg_m2")),
     confidence_summary |->
        [mean |-> np_mean(column(results, "confidence_score")),
         std |-> np_std(column(results, "confidence_score"))],
     individual_results |-> results,
     timestamp |-> Now]

\* the aggregate without the test for an empty result list: statistics
\* filled with zeros
aggregate_unguarded(image_paths, results) ==
    IF results = <<>>
    THEN [total_images |-> Len(image_paths),
          valid_analyses |-> 0,
          biomass_summary |-> [mean |-> 0, std |-> 0, min |-> 0, max |-> 0, total |-> 0],
          carbon_summary |-> [mean |-> 0, std |-> 0, min |-> 0, max |-> 0, total |-> 0],
          co2_summary |-> [mean |-> 0, std |-> 0, min |-> 0, max |-> 0, total |-> 0],
          confidence_summary |-> [mean |-> 0, std |-> 0],
          individual_results |-> results,
          timestamp |-> Now]
    ELSE statistics_block(image_paths, results)

\* the aggregate dict, or the error when no result is valid
aggregate(image_paths, results) ==
    IF results = <<>> THEN [error |-> "No valid analysis results"]
    ELSE statistics_block(image_paths, results)

\* analyze_multiple_images after the loop: the outer except branch when a
\* call raised, the aggregate otherwise
after_loop(image_paths, loop) ==
    [calls |-> loop.calls,
     ret |-> IF loop.raised # <<>> THEN [error |-> loop.raised[1]]
             ELSE aggregate(image_paths, valid_results(loop.calls))]

\* analyze_multiple_images: the dict it returns and the calls it made
analyze_multiple_images(m, image_paths, metadata) ==
    after_loop(image_paths, batch_loop(m, image_paths, metadata, <<>>))

\* analyze_multiple_images, tabulated over its arguments
analyze_multiple_images_table ==
    [m \in Backends, image_paths \in Batches, metadata \in Metadatas |->
        analyze_multiple_images(m, image_paths, metadata)] @@ <<>>

\* the scaler after a run of estimate_biomass calls: as the last fit_transform
\* left it
RECURSIVE scaler_after(_, _)
scaler_after(sc, made) ==
    IF made = <<>> THEN sc
    ELSE scaler_after(IF Head(made).scaler = <<>> THEN sc ELSE Head(made).scaler[1],
                      Tail(made))

\* the rows predict was called on during a run of estimate_biomass calls
RECURSIVE handed_over(_)
handed_over(made) ==
    IF made = <<>> THEN <<>> ELSE Head(made).X \o handed_over(Tail(made))

\* what the caller sees of a call: the path and the result
observed(made) ==
    [i \in 1..Len(made) |->
        [image_path |-> made[i].image_path, result |-> made[i].result]]

---------------------------------------------------------------------------------------------------------------------------------------------------
(* The reporter.  A line of text is [text, value]: the literal part and    *)
(* the values formatted into it.                                           *)

Line(text, value) == [text |-> text, value |-> value]

\* "{:.2f}" of a fixed-point number: its two decimals
\* nan and inf are written out as words
Format2f(v) ==
    IF IsNaN(v) THEN [sign |-> "", word |-> "nan"]
    ELSE IF IsInf(v) THEN [sign |-> IF v < 0 THEN "-" ELSE "", word |-> "inf"]
    ELSE [sign |-> IF v < 0 THEN "-" ELSE "", int |-> Abs(v) \div 100,
          frac |-> Abs(v) % 100]

Banner == Line("============================================================", <<>>)

ReportHeader ==
    << Banner, Line("BLUE CARBON BIOMASS ANALYSIS REPORT", <<>>), Banner,
       Line("Generated:", <<Now>>), Line("", <<>>) >>

\* the keys each branch reads
MultiKeys ==
    {"total_images", "valid_analyses", "biomass_summary", "carbon_summary",
     "co2_summary"}
SingleKeys ==
    {"image_path", "biomass_estimate_kg_m2", "carbon_content_kg_m2",
     "co2_equivalent_kg_m2", "confidence_score"}

MultiSection(d) ==
    << Line("MULTI-IMAGE ANALYSIS SUMMARY", <<>>),
       Line("------------------------------", <<>>),
       Line("Total Images:", <<d.total_images>>),
       Line("Valid Analyses:", <<d.valid_analyses>>),
       Line("", <<>>),
       Line("BIOMASS ESTIMATES (kg/m2)", <<>>),
       Line("  Mean:", <<Format2f(d.biomass_summary.mean)>>),
       Line("  Std Dev:", <<Format2f(d.biomass_summary.std)>>),
       Line("  Range:", <<Format2f(d.biomass_summary.min),
                          Format2f(d.biomass_summary.max)>>),
       Line("  Total:", <<Format2f(d.biomass_summary.total)>>),
       Line("", <<>>),
       Line("CARBON CONTENT (kg/m2)", <<>>),
       Line("  Mean:", <<Format2f(d.carbon_summary.mean)>>),
       Line("  Total:", <<Format2f(d.carbon_summary.total)>>),
       Line("", <<>>),
       Line("CO2 EQUIVALENT (kg/m2)", <<>>),
       Line("  Mean:", <<Format2f(d.co2_summary.mean)>>),
       Line("  Total:", <<Format2f(d.co2_summary.total)>>),
       Line("", <<>>) >>

SingleSection(d) ==
    << Line("SINGLE IMAGE ANALYSIS", <<>>),
       Line("-------------------------", <<>>),
       Line("Image:", <<d.image_path>>),
       Line("Biomass:", <<Format2f(d.biomass_estimate_kg_m2)>>),
       Line("Carbon:", <<Format2f(d.carbon_content_kg_m2)>>),
       Line("CO2 Equivalent:", <<Format2f(d.co2_equivalent_kg_m2)>>),
       Line("Confidence:", <<Format2f(d.confidence_score)>>),
       Line("", <<>>) >>

\* the return from the except branch of generate_report
ReportFailure(e) == <<Line("Error generating report:", <<e>>)>>

\* the paths open(output_path, 'w') can create
WritablePaths == {"biomass_report.txt"}

\* output_path arguments: None, a path that can be written, one that cannot
OutputPaths == {"None", "biomass_report.txt", "no_such_dir/report.txt"}

\* generate_report once the report is rendered: the write to output_path
\* and the return
save_report(content, output_path) ==
    IF output_path = "None"
    THEN [ret |-> content, report |-> content, written |-> <<>>]
    ELSE IF output_path \in WritablePaths
    THEN [ret |-> content, report |-> content,
          written |-> <<[path |-> output_path, content |-> content]>>]
    ELSE [ret |-> ReportFailure("FileNotFoundError"), report |-> content,
          written |-> <<>>]

\* generate_report choosing the section by a type tag when there is one
generate_report_by_tag(analysis_results, output_path) ==
    IF "error" \in DOMAIN analysis_results
    THEN [ret |-> Append(ReportHeader, Line("ERROR:", <<analysis_results.error>>)),
          report |-> Append(ReportHeader, Line("ERROR:", <<analysis_results.error>>)),
          written |-> <<>>]
    ELSE IF IF "type" \in DOMAIN analysis_results
            THEN analysis_results.type = "aggregate"
            ELSE "individual_results" \in DOMAIN analysis_results
    THEN IF MultiKeys \subseteq DOMAIN analysis_results
         THEN save_report(ReportHeader \o MultiSection(analysis_results) \o <<Banner>>,
                          output_path)
         ELSE [ret |-> ReportFailure("KeyError"),
               report |-> Append(ReportHeader, Line("MULTI-IMAGE ANALYSIS SUMMARY", <<>>)),
               written |-> <<>>]
    ELSE IF SingleKeys \subseteq DOMAIN analysis_results
         THEN save_report(ReportHeader \o SingleSection(analysis_results) \o <<Banner>>,
                          output_path)
         ELSE [ret |-> ReportFailure("KeyError"),
               report |-> Append(ReportHeader, Line("SINGLE IMAGE ANALYSIS", <<>>)),
               written |-> <<>>]

\* generate_report: what it returns, what it had rendered, what it wrote
generate_report(analysis_results, output_path) ==
    IF "error" \in DOMAIN analysis_results
    THEN [ret |-> Append(ReportHeader, Line("ERROR:", <<analysis_results.error>>)),
          report |-> Append(ReportHeader, Line("ERROR:", <<analysis_results.error>>)),
          written |-> <<>>]
    ELSE IF "individual_results" \in DOMAIN analysis_results
    THEN IF MultiKeys \subseteq DOMAIN analysis_results
         THEN save_report(ReportHeader \o MultiSection(analysis_results) \o <<Banner>>,
                          output_path)
         ELSE [ret |-> ReportFailure("KeyError"),
               report |-> Append(ReportHeader, Line("MULTI-IMAGE ANALYSIS SUMMARY", <<>>)),
               written |-> <<>>]
    ELSE IF SingleKeys \subseteq DOMAIN analysis_results
         THEN save_report(ReportHeader \o SingleSection(analysis_results) \o <<Banner>>,
                          output_path)
         ELSE [ret |-> ReportFailure("KeyError"),
               report |-> Append(ReportHeader, Line("SINGLE IMAGE ANALYSIS", <<>>)),
               written |-> <<>>]

\* a caller may add keys of its own to a result before reporting it: here a
\* type tag
Tags == {"none", "single", "aggregate"}
tagged(d, tag) == IF tag = "none" THEN d ELSE [type |-> tag] @@ d

-----
(* The operations *)

\* BiomassAnalyzer(model_path): the default forest when there is no file at
\* model_path or it fails to load, the loaded model otherwise
Init ==
    /\ model \in {RandomForest} \cup LoadableModels
    /\ scaler = UnfittedScaler
    /\ op = "__init__"
    /\ args = <<>>
    /\ ret = [none |-> TRUE]
    /\ calls = <<>>
    /\ handed = <<>>
    /\ report = <<>>
    /\ written = <<>>

\* a method returns: the analyzer and the caller after it
Return(name, arguments, r, made) ==
    /\ op' = name
    /\ args' = arguments
    /\ ret' = r
    /\ scaler' = scaler_after(scaler, made)
    /\ calls' = observed(made)
    /\ handed' = handed_over(made)
    /\ report' = <<>>
    /\ written' = <<>>
    /\ UNCHANGED model

\* analyzer.model = None: the state the fallback branch of estimate_biomass
\* is written for
ClearModel ==
    /\ model # NoModel
    /\ model' = NoModel
    /\ op' = "model = None"
    /\ args' = <<>>
    /\ ret' = [none |-> TRUE]
    /\ calls' = <<>>
    /\ handed' = <<>>
    /\ report' = <<>>
    /\ written' = <<>>
    /\ UNCHANGED scaler

\* the return of estimate_biomass
EstimateReturn(image_path, metadata, r) ==
    Return("estimate_biomass",
           [image_path |-> image_path, metadata |-> metadata],
           r.ret, <<call_of(image_path, r)>>)

\* analyzer.estimate_biomass(image_path, metadata)
EstimateBiomass(image_path, metadata) ==
    EstimateReturn(image_path, metadata,
                   estimate_biomass_table[model, image_path, metadata])

\* the return of analyze_multiple_images
AnalyzeReturn(image_paths, metadata, r) ==
    Return("analyze_multiple_images",
           [image_paths |-> image_paths, metadata |-> metadata],
           r.ret, r.calls)

\* analyzer.analyze_multiple_images(image_paths, metadata)
AnalyzeMultipleImages(image_paths, metadata) ==
    AnalyzeReturn(image_paths, metadata,
                  analyze_multiple_images_table[model, image_paths, metadata])

\* the return of generate_report
ReportReturn(analysis_results, output_path, r) ==
    /\ op' = "generate_report"
    /\ args' = [analysis_results |-> analysis_results, output_path |-> output_path]
    /\ ret' = [text |-> r.ret]
    /\ calls' = <<>>
    /\ handed' = <<>>
    /\ report' = r.report
    /\ written' = r.written
    /\ UNCHANGED <<model, scaler>>

\* analyzer.generate_report(analysis_results, output_path) on the result the
\* analyzer returned last
GenerateReport(tag, output_path) ==
    /\ op \in {"estimate_biomass", "analyze_multiple_images"}
    /\ ReportReturn(tagged(ret, tag), output_path,
                    generate_report(tagged(ret, tag), output_path))

\* the return of one of the two estimator helpers
HelperReturn(name, features, value) ==
    /\ op' = name
    /\ args' = [features |-> features]
    /\ ret' = [value |-> value]
    /\ calls' = <<>>
    /\ handed' = <<>>
    /\ report' = <<>>
    /\ written' = <<>>
    /\ UNCHANGED <<model, scaler>>

\* analyzer._calculate_confidence(features)
CalculateConfidence(features) ==
    HelperReturn("_calculate_confidence", features, _calculate_confidence(features))

\* analyzer._calculate_fallback_biomass(features)
CalculateFallbackBiomass(features) ==
    HelperReturn("_calculate_fallback_biomass", features,
                 _calculate_fallback_biomass(features))

\* feature vectors handed to the helpers directly: the vegetation-index
\* mean, the height mean and the canopy cover from the sets below, every
\* other entry the same value
NdviMeans == {-50, 0, 25, 100}
HeightMeans == {0, 5000, 20000}
CanopyCovers == {0, 5000, 15000}
OtherValues == {0, 100, 100000}

feature_vector(ndvi_mean, height_mean, canopy_cover, other) ==
    [i \in 1..Len(feature_names) |->
        CASE i = 1 -> ndvi_mean
          [] i = 5 -> height_mean
          [] i = 10 -> canopy_cover
          [] OTHER -> other]

FeatureVectors ==
    { feature_vector(n, h, c, o) :
        n \in NdviMeans, h \in HeightMeans, c \in CanopyCovers, o \in OtherValues }

\* analyzer.calculate_ndvi(image)
CalculateNdvi(image) ==
    /\ op' = "calculate_ndvi"
    /\ args' = [image |-> image]
    /\ ret' = calculate_ndvi(image)
    /\ calls' = <<>>
    /\ handed' = <<>>
    /\ report' = <<>>
    /\ written' = <<>>
    /\ UNCHANGED <<model, scaler>>

\* the (R, G, B) bytes of the pixels of the images handed to calculate_ndvi
\* directly: three with a non-zero denominator G + 6R - 7.5B + 1, and three
\* with a zero one, whose numerator G - R is zero, positive and negative
Pixels ==
    { <<60, 200, 50>>, <<128, 128, 128>>, <<200, 50, 0>>,
      <<0, 0, 34>>, <<0, 15, 36>>, <<15, 0, 46>> }

\* those images: up to MaxPixels pixels
Images ==
    UNION { {[pixels |-> px] : px \in [1..n -> Pixels]} : n \in 1..MaxPixels }

Next ==
    \/ ClearModel
    \/ \E p \in SinglePaths, md \in Metadatas : EstimateBiomass(p, md)
    \/ \E b \in Batches, md \in Metadatas : AnalyzeMultipleImages(b, md)
    \/ \E tag \in Tags, output_path \in OutputPaths : GenerateReport(tag, output_path)

Spec == Init /\ [][Next]_vars

\* the helpers of the extractor and the estimator, called on their own
NextHelpers ==
    \/ \E f \in FeatureVectors : CalculateConfidence(f)
    \/ \E f \in FeatureVectors : CalculateFallbackBiomass(f)
    \/ \E image \in Images : CalculateNdvi(image)

SpecHelpers == Init /\ [][NextHelpers]_vars

----------------------------------------------------------------------------
(* Properties *)

IsError(d) == "error" \in DOMAIN d

\* the inputs on which a step of estimate_biomass fails
LoadFails(image_path) == image_path = "missing"
ExtractionFails(metadata) == metadata.kind = "list"
ScalingFails(metadata) ==
    metadata.kind = "dict" /\ \E k \in DOMAIN metadata.d : metadata.d[k].t = "str"
PredictionFails(m) == m.type = "RandomForestRegressor"

ErrorKeys == {"error", "image_path", "timestamp"}

\* C1: estimate_biomass always returns a dict; when the image load, the
\* scaling or the prediction fails, the dict has exactly the keys error,
\* image_path and timestamp (so no biomass, carbon or CO2 field), and
\* image_path is the path that was passed; and so is every dict with the key
\* error.
C1_ErrorTagged ==
    op = "estimate_biomass" =>
        /\ ~IsRaised(ret)
        /\ ( \/ LoadFails(args.image_path)
             \/ ScalingFails(args.metadata)
             \/ PredictionFails(model) ) => IsError(ret)
        /\ IsError(ret) =>
              /\ DOMAIN ret = ErrorKeys
              /\ ret.image_path = args.image_path
              /\ ret.timestamp = Now

\* an image that cannot be loaded, on an analyzer whose backend works
C1_Witness ==
    /\ op = "estimate_biomass"
    /\ LoadFails(args.image_path)
    /\ IsKeras(model)
    /\ IsError(ret)

\* the calls of the last batch that returned no error
ValidCalls == SelectSeq(calls, LAMBDA c : ~IsError(c.result))

\* the values of one metric over those calls
ValidValues(key) == [i \in 1..Len(ValidCalls) |-> ValidCalls[i].result[key]]

\* a summary block is the statistics of the sequence v
IsSummaryOf(block, v) ==
    /\ block.total = np_sum(v)
    /\ block.mean = Quot(np_sum(v), Len(v))
    /\ \E i \in 1..Len(v) : block.min = v[i]
    /\ \A i \in 1..Len(v) : block.min <= v[i]
    /\ \E i \in 1..Len(v) : block.max = v[i]
    /\ \A i \in 1..Len(v) : block.max >= v[i]
    /\ block.std = np_std(v)

\* C2: a batch with at least one valid result returns total_images = the
\* number of paths, valid_analyses = the number of calls without error, and
\* every summary computed over the valid results only.
C2_ValidOnly ==
    (op = "analyze_multiple_images" /\ ValidCalls # <<>>) =>
        /\ ~IsError(ret)
        /\ ret.total_images = Len(args.image_paths)
        /\ ret.valid_analyses = Len(ValidCalls)
        /\ IsSummaryOf(ret.biomass_summary, ValidValues("biomass_estimate_kg_m2"))
        /\ IsSummaryOf(ret.carbon_summary, ValidValues("carbon_content_kg_m2"))
        /\ IsSummaryOf(ret.co2_summary, ValidValues("co2_equivalent_kg_m2"))
        /\ ret.confidence_summary.mean = np_mean(ValidValues("confidence_score"))
        /\ ret.confidence_summary.std = np_std(ValidValues("confidence_score"))

\* one error-tagged and two valid results, of different biomass
C2_Witness ==
    /\ op = "analyze_multiple_images"
    /\ Len(calls) = 3
    /\ Len(ValidCalls) = 2
    /\ ~IsError(ret)
    /\ ret.valid_analyses = 2
    /\ ret.biomass_summary.min < ret.biomass_summary.max

SummaryKeys ==
    {"biomass_summary", "carbon_summary", "co2_summary", "confidence_summary",
     "valid_analyses"}

\* C3: a batch without a valid result, the empty batch included, returns a
\* dict that has the key error and no summary block.
C3_NoValidIsError ==
    (op = "analyze_multiple_images" /\ ValidCalls = <<>>) =>
        /\ IsError(ret)
        /\ DOMAIN ret \cap SummaryKeys = {}

\* a batch of several images, all of which fail
C3_Witness ==
    /\ op = "analyze_multiple_images"
    /\ Len(calls) >= 2
    /\ ValidCalls = <<>>
    /\ IsError(ret)

\* C4: analyze_multiple_images calls estimate_biomass once for every path,
\* in input order, whatever the earlier calls returned, and
\* individual_results is the valid results in that order.
C4_EveryPathInOrder ==
    op = "analyze_multiple_images" =>
        /\ [i \in 1..Len(calls) |-> calls[i].image_path] = args.image_paths
        /\ "individual_results" \in DOMAIN ret =>
              ret.individual_results =
                  [i \in 1..Len(ValidCalls) |-> ValidCalls[i].result]

\* a failing image first, then images that are analysed and reported
C4_Witness ==
    /\ op = "analyze_multiple_images"
    /\ Len(calls) = 3
    /\ IsError(calls[1].result)
    /\ ~IsError(calls[2].result)
    /\ ~IsError(calls[3].result)
    /\ Len(ret.individual_results) = 2

\* c/100 times v, to the two decimals kept; a positive factor leaves nan
\* and the infinities as they are
Times(c, v) == IF IsFinite(v) THEN Quot(c * v, 100) ELSE v

\* C5: in every non-error result, carbon is 0.47 x biomass and CO2 is
\* 3.67 x carbon, to the two decimals kept.
C5_Conversion ==
    (op = "estimate_biomass" /\ ~IsError(ret)) =>
        /\ ret.carbon_content_kg_m2 = Times(47, ret.biomass_estimate_kg_m2)
        /\ ret.co2_equivalent_kg_m2 = Times(367, ret.carbon_content_kg_m2)

\* a result whose biomass comes from the fallback
C5_Witness ==
    /\ op = "estimate_biomass"
    /\ model = NoModel
    /\ ~IsError(ret)
    /\ IsFinite(ret.biomass_estimate_kg_m2)
    /\ ret.biomass_estimate_kg_m2 > FALLBACK_MIN

\* a result with biomass 0
C5_ZeroBiomass ==
    /\ op = "estimate_biomass"
    /\ ~IsError(ret)
    /\ ret.biomass_estimate_kg_m2 = 0
    /\ ret.co2_equivalent_kg_m2 = 0

\* C6: _calculate_confidence returns a value in [0, 1], and 0 for the
\* all-zero vector.
C6_ConfidenceRange ==
    op = "_calculate_confidence" =>
        /\ ret.value >= 0
        /\ ret.value <= 100
        /\ (\A i \in DOMAIN args.features : args.features[i] = 0) => ret.value = 0

\* a negative vegetation-index mean together with a canopy cover above 100
C6_Witness ==
    /\ op = "_calculate_confidence"
    /\ args.features[1] < 0
    /\ args.features[10] > 10000
    /\ ret.value > 0

\* the fixed weights, as 14 literals
FallbackWeights == <<30, 10, 10, 20, 20, 10, 10, 20, 30, 40, 20, 10, 5, 5>>

\* the sum of features[i] * FallbackWeights[i]
WeightedSum(f) == np_sum([i \in 1..14 |-> Quot(f[i] * FallbackWeights[i], 100)])

\* C7: on a vector without negative entries _calculate_fallback_biomass
\* returns the weighted sum, replaced by 0.1 when below and by 50.0 when
\* above; the value is in [0.1, 50.0].
C7_FallbackClamped ==
    (op = "_calculate_fallback_biomass"
       /\ \A i \in DOMAIN args.features : args.features[i] >= 0) =>
        /\ ret.value >= 10
        /\ ret.value <= 5000
        /\ WeightedSum(args.features) < 10 => ret.value = 10
        /\ WeightedSum(args.features) > 5000 => ret.value = 5000
        /\ (WeightedSum(args.features) >= 10 /\ WeightedSum(args.features) <= 5000)
              => ret.value = WeightedSum(args.features)

\* a weighted sum inside the range, returned as it is
C7_Witness ==
    /\ op = "_calculate_fallback_biomass"
    /\ \A i \in DOMAIN args.features : args.features[i] >= 0
    /\ ret.value > 10
    /\ ret.value < 5000

HasLine(lines, text) == \E i \in 1..Len(lines) : lines[i].text = text

\* C8: generate_report returns text; given a dict with the key error it
\* renders the ERROR: line and no section; otherwise it renders the
\* multi-image section exactly when the key individual_results is present
\* and the single-image section exactly when it is absent, whatever other
\* keys (a type tag) the dict carries; what it returns is what it rendered
\* unless writing the file failed.
C8_BranchByKeys ==
    op = "generate_report" =>
        LET d == args.analysis_results
            multi == HasLine(report, "MULTI-IMAGE ANALYSIS SUMMARY")
            single == HasLine(report, "SINGLE IMAGE ANALYSIS")
        IN  /\ DOMAIN ret = {"text"}
            /\ IsError(d) => (HasLine(ret.text, "ERROR:") /\ ~multi /\ ~single)
            /\ ~IsError(d) => /\ multi <=> "individual_results" \in DOMAIN d
                              /\ single <=> "individual_results" \notin DOMAIN d
            /\ (args.output_path \in WritablePaths \cup {"None"}) => ret.text = report

\* a single-image result tagged as an aggregate is rendered as a single image
C8_Witness ==
    /\ op = "generate_report"
    /\ "type" \in DOMAIN args.analysis_results
    /\ args.analysis_results.type = "aggregate"
    /\ "individual_results" \notin DOMAIN args.analysis_results
    /\ HasLine(ret.text, "SINGLE IMAGE ANALYSIS")

\* C9: the confidence is the average of the three sub-scores, each clamped
\* to [0, 1] on its own.
C9_ClampedSubscores ==
    op = "_calculate_confidence" =>
        ret.value =
            Quot(( Clip(Quot(100 * args.features[1], 50), 0, 100)
                 + Clip(Quot(100 * args.features[5], 10000), 0, 100)
                 + Clip(Quot(100 * args.features[10], 10000), 0, 100) ) * 100, 300)

\* C10: when extract_features fails as a whole (metadata is truthy and has
\* no get method), estimate_biomass returns an error-tagged result.
C10_ExtractionFailureIsError ==
    (op = "estimate_biomass" /\ ExtractionFails(args.metadata)) => IsError(ret)

\* 510 times the denominator G + 6R - 7.5B + 1 of a pixel, in bytes
Denominator(px) == 2 * px[2] + 12 * px[1] - 15 * px[3] + 510

\* an image with a pixel whose denominator is zero
IsDegenerate(image) ==
    \E i \in 1..Len(image.pixels) : Denominator(image.pixels[i]) = 0

ZeroStatistics == [ndvi_mean |-> 0, ndvi_std |-> 0, ndvi_min |-> 0, ndvi_max |-> 0]

\* C11: calculate_ndvi returns no infinite and no not-a-number statistic,
\* and on an image with a pixel whose denominator is zero it returns the
\* fallback statistics, all zero.
C11_DegenerateGuarded ==
    op = "calculate_ndvi" =>
        /\ \A k \in DOMAIN ret : IsFinite(ret[k])
        /\ IsDegenerate(args.image) => ret = ZeroStatistics

\* the all-zero row of 14 features
ZeroRow == [i \in 1..14 |-> 0]

\* C12: every row handed to the backend is the all-zero row, whatever the
\* image, the metadata and the calls made before; so the backend's
\* prediction is the same in every result: that of the all-zero row.
C12_ScaledRowIsZero ==
    /\ \A i \in 1..Len(handed) : handed[i] = ZeroRow
    /\ (op = "estimate_biomass" /\ ~IsError(ret) /\ model # NoModel) =>
           ret.biomass_estimate_kg_m2 = predict(model, ZeroRow).value

\* C12 on the calls whose features are all finite numbers
C12_FiniteScaledRowIsZero ==
    /\ \A i \in 1..Len(handed) :
           (\A j \in 1..14 : IsFinite(handed[i][j])) => handed[i] = ZeroRow
    /\ (op = "estimate_biomass" /\ ~IsError(ret) /\ model # NoModel
          /\ \A k \in DOMAIN ret.features : IsFinite(ret.features[k])) =>
           ret.biomass_estimate_kg_m2 = predict(model, ZeroRow).value

\* a second call on an analyzer whose scaler an earlier call had fit: a row
\* was handed to the backend and the result is not an error
C12_RefitReached ==
    /\ op = "estimate_biomass"
    /\ ~IsError(ret)
    /\ Len(handed) = 1
    /\ scaler.fitted

====
